---- MODULE Spec2Model ----
(***************************************************************************)
(* Expression Tree Builder (expression_tree.py): token classification,     *)
(* notation detection, shunting-yard conversion, stack-based tree          *)
(* building, tree traversals, numeric evaluation and the main pipeline.    *)
(*                                                                         *)
(* A token is a non-empty sequence of one-character strings, an expression *)
(* is a sequence of tokens.  TreeNode objects live in `heap`: node n is    *)
(* heap[n], and 0 stands for None.                                         *)
(***************************************************************************)
EXTENDS Integers, Sequences, FiniteSets, TLC

VARIABLES
    expression,  \* the token sequence handed to the entry point
    entry,       \* the function under study: which driver runs
    pc,          \* position of the running driver
    fn,          \* the builder currently running: "postfix" or "prefix"
    scan,        \* the sequence the builder's for loop iterates over
    i,           \* index of the next token of scan
    stack,       \* the builder's stack of node ids
    heap,        \* all TreeNode objects created so far
    tree,        \* root returned by the last successful build, 0 if none
    err,         \* the exception raised, "none" if none
    pass,        \* round-trip driver: 1 = first build, 2 = rebuild
    tree1,       \* round-trip driver: the root of the first build
    postfix,     \* output of infix_to_postfix (main rebinds it at step 3)
    etype,       \* result of detect_expression_type
    result,      \* result of evaluate_tree
    out          \* the lines main has printed, oldest first

vars == <<expression, entry, pc, fn, scan, i, stack, heap, tree, err,
          pass, tree1, postfix, etype, result, out>>

(***************************************************************************)
(* Bounds                                                                  *)
(***************************************************************************)
MaxBuildLen == 5

(***************************************************************************)
(* Characters and tokens                                                   *)
(***************************************************************************)
Digits == {"0", "1", "2", "3", "4", "5", "6", "7", "8", "9"}

Letters == {"a", "b", "c", "d", "e", "f", "g", "h", "i", "j", "k", "l", "m",
            "n", "o", "p", "q", "r", "s", "t", "u", "v", "w", "x", "y", "z",
            "A", "B", "C", "D", "E", "F", "G", "H", "I", "J", "K", "L", "M",
            "N", "O", "P", "Q", "R", "S", "T", "U", "V", "W", "X", "Y", "Z"}

\* str.isalnum(): at least one character and every character alphanumeric
\* (the ASCII letters and digits; isalnum also accepts the letters and
\* digits of other scripts, which no input here holds)
IsAlnum(token) ==
    /\ Len(token) > 0
    /\ \A k \in 1..Len(token) : token[k] \in Digits \cup Letters

Operators == {<<"+">>, <<"-">>, <<"*">>, <<"/">>, <<"^">>}

is_operator(token) == token \in Operators

is_operand(token) == IsAlnum(token)

LPAREN == <<"(">>
RPAREN == <<")">>

None == 0

TreeNode(value) == [value |-> value, left |-> None, right |-> None]

\* reversed(seq)
Reversed(seq) == [k \in 1..Len(seq) |-> seq[Len(seq) + 1 - k]]

\* all sequences over S of length at most n
SeqsUpTo(S, n) == UNION {[1..m -> S] : m \in 0..n}

(***************************************************************************)
(* Tree converters                                                         *)
(***************************************************************************)
RECURSIVE to_postfix(_, _)
to_postfix(h, node) ==
    IF node = None THEN <<>>
    ELSE to_postfix(h, h[node].left) \o to_postfix(h, h[node].right)
            \o <<h[node].value>>

RECURSIVE to_prefix(_, _)
to_prefix(h, node) ==
    IF node = None THEN <<>>
    ELSE <<h[node].value>> \o to_prefix(h, h[node].left)
            \o to_prefix(h, h[node].right)

\* the tree below node as a value: None, or <<value, left tree, right tree>>
RECURSIVE Shape(_, _)
Shape(h, node) ==
    IF node = None THEN <<>>
    ELSE <<h[node].value, Shape(h, h[node].left), Shape(h, h[node].right)>>

(***************************************************************************)
(* Tree builders: one action per branch of the loop body and of the final  *)
(* check.  f is "postfix" (build_tree_from_postfix) or "prefix"            *)
(* (build_tree_from_prefix).                                               *)
(***************************************************************************)
NotEnoughOperands(stk) == Len(stk) < 2

IncorrectCountEmptyOnly(stk) == Len(stk) = 0

IncorrectCount(stk) == Len(stk) # 1

\* the stack after one stack.pop()
Popped(stk) == SubSeq(stk, 1, Len(stk) - 1)

Top(stk) == stk[Len(stk)]

PostfixNodeSwapped(token, stk) ==
    [value |-> token, left |-> Top(stk), right |-> Top(Popped(stk))]

\* lines 27-29: the first pop is the right child, the second the left
PostfixNode(token, stk) ==
    [value |-> token, right |-> Top(stk), left |-> Top(Popped(stk))]

PrefixNodeSwapped(token, stk) ==
    [value |-> token, right |-> Top(stk), left |-> Top(Popped(stk))]

\* lines 46-48: the first pop is the left child, the second the right
PrefixNode(token, stk) ==
    [value |-> token, left |-> Top(stk), right |-> Top(Popped(stk))]

NewNodeShared(f, token, stk) ==
    [value |-> token, left |-> Top(stk), right |-> Top(stk)]

NewNode(f, token, stk) ==
    IF f = "postfix" THEN PostfixNode(token, stk) ELSE PrefixNode(token, stk)

Building(f) == pc = "build" /\ fn = f

Raise(e) ==
    /\ pc' = "raised"
    /\ err' = e

BuildOperand(f) ==
    /\ Building(f)
    /\ i <= Len(scan)
    /\ is_operand(scan[i])
    /\ heap' = Append(heap, TreeNode(scan[i]))
    /\ stack' = Append(stack, Len(heap) + 1)
    /\ i' = i + 1
    /\ UNCHANGED <<expression, entry, pc, fn, scan, tree, err, pass, tree1,
                   postfix, etype, result, out>>

BuildOperator(f) ==
    /\ Building(f)
    /\ i <= Len(scan)
    /\ ~is_operand(scan[i])
    /\ is_operator(scan[i])
    /\ ~NotEnoughOperands(stack)
    /\ heap' = Append(heap, NewNode(f, scan[i], stack))
    /\ stack' = Append(Popped(Popped(stack)), Len(heap) + 1)
    /\ i' = i + 1
    /\ UNCHANGED <<expression, entry, pc, fn, scan, tree, err, pass, tree1,
                   postfix, etype, result, out>>

BuildNotEnough(f) ==
    /\ Building(f)
    /\ i <= Len(scan)
    /\ ~is_operand(scan[i])
    /\ is_operator(scan[i])
    /\ NotEnoughOperands(stack)
    /\ Raise("InsufficientOperands")
    /\ UNCHANGED <<expression, entry, fn, scan, i, stack, heap, tree, pass,
                   tree1, postfix, etype, result, out>>

BuildInvalidToken(f) ==
    /\ Building(f)
    /\ i <= Len(scan)
    /\ ~is_operand(scan[i])
    /\ ~is_operator(scan[i])
    /\ Raise("InvalidToken")
    /\ UNCHANGED <<expression, entry, fn, scan, i, stack, heap, tree, pass,
                   tree1, postfix, etype, result, out>>

BuildIncorrectCount(f) ==
    /\ Building(f)
    /\ i > Len(scan)
    /\ IncorrectCount(stack)
    /\ Raise("MalformedExpression")
    /\ UNCHANGED <<expression, entry, fn, scan, i, stack, heap, tree, pass,
                   tree1, postfix, etype, result, out>>

BuildReturn(f) ==
    /\ Building(f)
    /\ i > Len(scan)
    /\ ~IncorrectCount(stack)
    /\ tree' = Top(stack)
    /\ pc' = "built"
    /\ UNCHANGED <<expression, entry, fn, scan, i, stack, heap, err, pass,
                   tree1, postfix, etype, result, out>>

build_tree_from_postfix ==
    \/ BuildOperand("postfix")
    \/ BuildOperator("postfix")
    \/ BuildNotEnough("postfix")
    \/ BuildInvalidToken("postfix")
    \/ BuildIncorrectCount("postfix")
    \/ BuildReturn("postfix")

build_tree_from_prefix ==
    \/ BuildOperand("prefix")
    \/ BuildOperator("prefix")
    \/ BuildNotEnough("prefix")
    \/ BuildInvalidToken("prefix")
    \/ BuildIncorrectCount("prefix")
    \/ BuildReturn("prefix")

\* the state in which builder f starts on tokens, heap h being allocated
StartBuild(f, tokens) ==
    /\ fn' = f
    /\ scan' = IF f = "postfix" THEN tokens ELSE Reversed(tokens)
    /\ i' = 1
    /\ stack' = <<>>
    /\ pc' = "build"

(***************************************************************************)
(* Round-trip driver: build a tree from the expression, convert it back to *)
(* the same notation and build again from the converted sequence.          *)
(***************************************************************************)
BuildTokens == {<<"3">>, <<"x">>, <<"+">>, <<"^">>, LPAREN}

BuildInputs == SeqsUpTo(BuildTokens, MaxBuildLen)

InitBuild ==
    /\ entry \in {"postfix", "prefix"}
    /\ expression \in BuildInputs
    /\ fn = entry
    /\ scan = IF entry = "postfix" THEN expression ELSE Reversed(expression)
    /\ i = 1
    /\ stack = <<>>
    /\ heap = <<>>
    /\ tree = None
    /\ err = "none"
    /\ pc = "build"
    /\ pass = 1
    /\ tree1 = None
    /\ postfix = <<>>
    /\ etype = "none"
    /\ result = "none"
    /\ out = <<>>

Converted(f, h, node) ==
    IF f = "postfix" THEN to_postfix(h, node) ELSE to_prefix(h, node)

Rebuild ==
    /\ entry \in {"postfix", "prefix"}
    /\ pc = "built"
    /\ pass = 1
    /\ pass' = 2
    /\ tree1' = tree
    /\ tree' = None
    /\ StartBuild(entry, Converted(entry, heap, tree))
    /\ UNCHANGED <<expression, entry, heap, err, postfix, etype, result, out>>

NextBuild ==
    \/ build_tree_from_postfix
    \/ build_tree_from_prefix
    \/ Rebuild

SpecBuild == InitBuild /\ [][NextBuild]_vars

(***************************************************************************)
(* infix_to_postfix: shunting yard.  The operator stack holds operators    *)
(* and "(" only, so the table lookups of line 67-68 are always defined.    *)
(***************************************************************************)
precedence ==
    [t \in Operators |->
        IF t \in {<<"+">>, <<"-">>} THEN 1
        ELSE IF t \in {<<"*">>, <<"/">>} THEN 2 ELSE 3]

associativity == [t \in Operators |-> IF t = <<"^">> THEN "R" ELSE "L"]

PopsFirstIgnoringAssoc(token, top) == precedence[token] <= precedence[top]

\* lines 67-68: the operator on the stack goes to the output first
PopsFirst(token, top) ==
    \/ precedence[token] < precedence[top]
    \/ /\ precedence[token] = precedence[top]
       /\ associativity[token] = "L"

\* lines 66-69: the while loop of the operator branch
RECURSIVE PopOperators(_, _, _)
PopOperators(token, output, stk) ==
    IF stk # <<>> /\ Top(stk) # LPAREN /\ PopsFirst(token, Top(stk))
    THEN PopOperators(token, Append(output, Top(stk)), Popped(stk))
    ELSE [output |-> output, stack |-> stk]

\* lines 74-75: the while loop of the ")" branch
RECURSIVE PopToParen(_, _)
PopToParen(output, stk) ==
    IF stk # <<>> /\ Top(stk) # LPAREN
    THEN PopToParen(Append(output, Top(stk)), Popped(stk))
    ELSE [output |-> output, stack |-> stk]

\* lines 79-80: everything left on the stack goes to the output
RECURSIVE Drain(_, _)
Drain(output, stk) ==
    IF stk # <<>> THEN Drain(Append(output, Top(stk)), Popped(stk))
    ELSE output

\* lines 62-81 from token k on
RECURSIVE ShuntingYard(_, _, _, _)
ShuntingYard(expr, k, output, stk) ==
    IF k > Len(expr) THEN [err |-> "none", output |-> Drain(output, stk)]
    ELSE LET token == expr[k] IN
        IF is_operand(token)
        THEN ShuntingYard(expr, k + 1, Append(output, token), stk)
        ELSE IF is_operator(token)
        THEN LET r == PopOperators(token, output, stk)
             IN  ShuntingYard(expr, k + 1, r.output, Append(r.stack, token))
        ELSE IF token = LPAREN
        THEN ShuntingYard(expr, k + 1, output, Append(stk, token))
        ELSE IF token = RPAREN
        THEN LET r == PopToParen(output, stk)
             IN  IF r.stack = <<>>
                 THEN [err |-> "IndexError", output |-> <<>>]  \* pop from empty list
                 ELSE ShuntingYard(expr, k + 1, r.output, Popped(r.stack))
        ELSE [err |-> "InvalidToken", output |-> <<>>]

infix_to_postfix(expr) == ShuntingYard(expr, 1, <<>>, <<>>)

\* lines 171-172 of main: convert, then start build_tree_from_postfix on
\* the result; an exception of the converter propagates.
ConvertInfix ==
    /\ pc = "convert"
    /\ LET r == infix_to_postfix(expression)
       IN  IF r.err # "none"
           THEN /\ Raise(r.err)
                /\ UNCHANGED <<fn, scan, i, stack, postfix>>
           ELSE /\ postfix' = r.output
                /\ StartBuild("postfix", r.output)
                /\ err' = err
    /\ UNCHANGED <<expression, entry, heap, tree, pass, tree1, etype, result,
                   out>>

(***************************************************************************)
(* Infix driver: convert the expression and build the tree of the result.  *)
(***************************************************************************)
MaxInfixOps == 3
MaxInfixParens == 1
MaxRawLen == 4

\* the j-th operand of a generated expression; the converter only asks
\* is_operand of an operand, so distinct names lose no case and make a
\* reordering visible
OperandNames ==
    << <<"7">>, <<"8">>, <<"2">>, <<"4">>, <<"x", "1">>, <<"y">>, <<"z">> >>

\* the number of marks m among the first k of shape
RECURSIVE CountOf(_, _, _)
CountOf(shape, m, k) ==
    IF k = 0 THEN 0
    ELSE CountOf(shape, m, k - 1) + (IF shape[k] = m THEN 1 ELSE 0)

\* shape with its j-th operand mark replaced by operands[j] and its j-th
\* operator mark by ops[j]; a parenthesis stays
Instance(shape, operands, ops) ==
    [k \in 1..Len(shape) |->
        IF shape[k] = "operand" THEN operands[CountOf(shape, "operand", k)]
        ELSE IF shape[k] = "operator" THEN ops[CountOf(shape, "operator", k)]
        ELSE <<shape[k]>>]

\* infix expressions with exactly k binary operators and at most p pairs of
\* parentheses, every operand and every operator left open
RECURSIVE InfixShapes(_, _)
InfixShapes(k, p) ==
    LET wrapped == IF p = 0 THEN {}
                   ELSE {<<"(">> \o s \o <<")">> : s \in InfixShapes(k, p - 1)}
        joined == UNION {UNION {
                      {l \o <<"operator">> \o r :
                          l \in InfixShapes(j, q),
                          r \in InfixShapes(k - 1 - j, p - q)}
                      : q \in 0..p} : j \in 0..(k - 1)}
    IN  IF k = 0 THEN {<<"operand">>} \cup wrapped ELSE joined \cup wrapped

\* the expressions with the most operators are generated without
\* parentheses, the shorter ones with up to MaxInfixParens pairs
ParensFor(k) == IF k < MaxInfixOps THEN MaxInfixParens ELSE 0

RawTokens == {<<"3">>, <<"+">>, LPAREN, RPAREN}

InitInfix ==
    /\ entry = "infix"
    /\ \/ \E k \in 0..MaxInfixOps : \E shape \in InfixShapes(k, ParensFor(k)) :
             \E ops \in [1..k -> Operators] :
                expression = Instance(shape, OperandNames, ops)
       \/ expression \in SeqsUpTo(RawTokens, MaxRawLen)
    /\ pc = "convert"
    /\ fn = "postfix"
    /\ scan = <<>>
    /\ i = 1
    /\ stack = <<>>
    /\ heap = <<>>
    /\ tree = None
    /\ err = "none"
    /\ pass = 1
    /\ tree1 = None
    /\ postfix = <<>>
    /\ etype = "none"
    /\ result = "none"
    /\ out = <<>>

NextInfix ==
    \/ ConvertInfix
    \/ build_tree_from_postfix

SpecInfix == InitInfix /\ [][NextInfix]_vars

(***************************************************************************)
(* Numbers.  A Python float is modelled as an exact rational n/d in lowest *)
(* terms (d > 0), an infinity with its sign, or nan; the sign of a zero is *)
(* not kept.  Sums, products and quotients of the small integers the       *)
(* inputs hold are exact in binary floating point up to rounding that      *)
(* never turns a non-zero result into zero within the bounds used here.    *)
(* A power with a fractional exponent is not computed: "untracked" stands  *)
(* for a float or complex number of unknown value, and arithmetic on it    *)
(* yields untracked again.                                                 *)
(***************************************************************************)
Abs(x) == IF x < 0 THEN -x ELSE x

RECURSIVE GCD(_, _)
GCD(a, b) == IF b = 0 THEN a ELSE GCD(b, a % b)

Rat(n, d) ==
    LET g == GCD(Abs(n), Abs(d))
        sgn == IF d < 0 THEN -1 ELSE 1
    IN  [k |-> "fin", n |-> sgn * (n \div g), d |-> Abs(d) \div g]

Int2Float(n) == [k |-> "fin", n |-> n, d |-> 1]

Inf(sgn) == [k |-> "inf", s |-> sgn]

NaN == [k |-> "nan"]

Untracked == [k |-> "untracked"]

Raised(e) == [k |-> "raise", e |-> e]

IsRaised(v) == v.k = "raise"

IsNumber(v) == v.k \in {"fin", "inf", "nan", "untracked"}

IsZero(v) == v.k = "fin" /\ v.n = 0

\* -1, 0 or 1 for a finite or infinite value
SignOf(v) ==
    IF v.k = "inf" THEN v.s
    ELSE IF v.n > 0 THEN 1 ELSE IF v.n < 0 THEN -1 ELSE 0

Neg(v) ==
    IF v.k = "fin" THEN [v EXCEPT !.n = -v.n]
    ELSE IF v.k = "inf" THEN Inf(-v.s)
    ELSE v

\* operator.add on two floats
add(a, b) ==
    IF a.k = "untracked" \/ b.k = "untracked" THEN Untracked
    ELSE IF a.k = "nan" \/ b.k = "nan" THEN NaN
    ELSE IF a.k = "inf" THEN (IF b.k = "inf" /\ b.s # a.s THEN NaN ELSE a)
    ELSE IF b.k = "inf" THEN b
    ELSE Rat(a.n * b.d + b.n * a.d, a.d * b.d)

\* operator.sub
sub(a, b) == add(a, Neg(b))

\* operator.mul
mul(a, b) ==
    IF a.k = "untracked" \/ b.k = "untracked" THEN Untracked
    ELSE IF a.k = "nan" \/ b.k = "nan" THEN NaN
    ELSE IF a.k = "inf" \/ b.k = "inf"
    THEN (IF IsZero(a) \/ IsZero(b) THEN NaN ELSE Inf(SignOf(a) * SignOf(b)))
    ELSE Rat(a.n * b.n, a.d * b.d)

truedivIEEE(a, b) ==
    IF a.k = "untracked" \/ b.k = "untracked" THEN Untracked
    ELSE IF a.k = "nan" \/ b.k = "nan" THEN NaN
    ELSE IF IsZero(b) THEN (IF IsZero(a) THEN NaN ELSE Inf(SignOf(a)))
    ELSE IF a.k = "inf"
    THEN (IF b.k = "inf" THEN NaN ELSE Inf(SignOf(a) * SignOf(b)))
    ELSE IF b.k = "inf" THEN Int2Float(0)
    ELSE Rat(a.n * b.d, a.d * b.n)

\* operator.truediv: float division raises on a zero divisor, whatever the
\* dividend
truediv(a, b) ==
    IF IsZero(b) THEN Raised("ZeroDivisionError")
    ELSE IF a.k = "untracked" \/ b.k = "untracked" THEN Untracked
    ELSE IF a.k = "nan" \/ b.k = "nan" THEN NaN
    ELSE IF a.k = "inf"
    THEN (IF b.k = "inf" THEN NaN ELSE Inf(SignOf(a) * SignOf(b)))
    ELSE IF b.k = "inf" THEN Int2Float(0)
    ELSE Rat(a.n * b.d, a.d * b.n)

RECURSIVE IntPow(_, _)
IntPow(n, e) == IF e = 0 THEN 1 ELSE n * IntPow(n, e - 1)

IsInteger(v) == v.k = "fin" /\ v.d = 1

IsOddInteger(v) == IsInteger(v) /\ v.n % 2 = 1

\* n/d compared with 1 in absolute value
AbsAboveOne(v) == v.k = "inf" \/ Abs(v.n) > v.d

AbsIsOne(v) == v.k = "fin" /\ Abs(v.n) = v.d

\* operator.pow on two floats, in the order float.__pow__ decides its cases
pow(a, b) ==
    IF a.k = "untracked" \/ b.k = "untracked" THEN Untracked
    ELSE IF IsZero(b) THEN Int2Float(1)
    ELSE IF a.k = "nan" THEN NaN
    ELSE IF b.k = "nan" THEN (IF a = Int2Float(1) THEN Int2Float(1) ELSE NaN)
    ELSE IF b.k = "inf"
    THEN (IF AbsIsOne(a) THEN Int2Float(1)
          ELSE IF (b.s > 0) = AbsAboveOne(a) THEN Inf(1)
          ELSE Int2Float(0))
    ELSE IF a.k = "inf"
    THEN (IF IsOddInteger(b)
          THEN (IF b.n > 0 THEN a ELSE Int2Float(0))
          ELSE (IF SignOf(b) > 0 THEN Inf(1) ELSE Int2Float(0)))
    ELSE IF IsZero(a)
    THEN (IF SignOf(b) < 0 THEN Raised("ZeroDivisionError") ELSE Int2Float(0))
    ELSE IF ~IsInteger(b)
    THEN (IF a = Int2Float(1) THEN Int2Float(1) ELSE Untracked)
    ELSE IF AbsIsOne(a) THEN Rat(IntPow(a.n, Abs(b.n) % 2), 1)
    ELSE IF \/ (Abs(a.n) >= 2 * a.d /\ b.n >= 1024)
            \/ (2 * Abs(a.n) <= a.d /\ b.n <= -1024)
    THEN Raised("OverflowError")
    ELSE IF b.n > 0 THEN Rat(IntPow(a.n, b.n), IntPow(a.d, b.n))
    ELSE Rat(IntPow(a.d, -b.n), IntPow(a.n, -b.n))

\* the operations table of lines 112-118 applied to two floats
Operation(op, l, r) ==
    IF op = <<"+">> THEN add(l, r)
    ELSE IF op = <<"-">> THEN sub(l, r)
    ELSE IF op = <<"*">> THEN mul(l, r)
    ELSE IF op = <<"/">> THEN truediv(l, r)
    ELSE pow(l, r)

(***************************************************************************)
(* float(token) for an alphanumeric ASCII token: decimal digits, digits    *)
(* with a decimal exponent, or a spelling of inf, infinity or nan in any   *)
(* case; anything else is a ValueError.  A literal too large for a float   *)
(* (which float() reads as inf) is computed exactly here; no input holds   *)
(* one.                                                                    *)
(***************************************************************************)
DigitSeq == <<"0", "1", "2", "3", "4", "5", "6", "7", "8", "9">>

DigitValue(c) == (CHOOSE v \in 1..10 : DigitSeq[v] = c) - 1

UpperSeq == <<"A", "B", "C", "D", "E", "F", "G", "H", "I", "J", "K", "L", "M",
              "N", "O", "P", "Q", "R", "S", "T", "U", "V", "W", "X", "Y", "Z">>

LowerSeq == <<"a", "b", "c", "d", "e", "f", "g", "h", "i", "j", "k", "l", "m",
              "n", "o", "p", "q", "r", "s", "t", "u", "v", "w", "x", "y", "z">>

LowerChar(c) ==
    IF \E v \in 1..26 : UpperSeq[v] = c
    THEN LowerSeq[CHOOSE v \in 1..26 : UpperSeq[v] = c]
    ELSE c

Lower(token) == [k \in 1..Len(token) |-> LowerChar(token[k])]

AllDigits(token, from, to) ==
    /\ from <= to
    /\ \A k \in from..to : token[k] \in Digits

\* the number the digits token[from..to] spell
RECURSIVE Decimal(_, _, _)
Decimal(token, from, to) ==
    IF to < from THEN 0
    ELSE 10 * Decimal(token, from, to - 1) + DigitValue(token[to])

float(token) ==
    IF Lower(token) \in {<<"i", "n", "f">>,
                          <<"i", "n", "f", "i", "n", "i", "t", "y">>}
    THEN Inf(1)
    ELSE IF Lower(token) = <<"n", "a", "n">> THEN NaN
    ELSE IF AllDigits(token, 1, Len(token))
    THEN Int2Float(Decimal(token, 1, Len(token)))
    ELSE IF \E p \in 2..(Len(token) - 1) :
                /\ Lower(token)[p] = "e"
                /\ AllDigits(token, 1, p - 1)
                /\ AllDigits(token, p + 1, Len(token))
    THEN LET p == CHOOSE q \in 2..(Len(token) - 1) : Lower(token)[q] = "e"
         IN  Int2Float(Decimal(token, 1, p - 1)
                        * IntPow(10, Decimal(token, p + 1, Len(token))))
    ELSE Raised("ValueError")

(***************************************************************************)
(* evaluate_tree                                                           *)
(***************************************************************************)
\* lines 122-125: a token float() rejects is reported as a variable
OperandValue(token) ==
    IF IsRaised(float(token)) THEN Raised("NonNumericOperand")
    ELSE float(token)

OperatorValueRightFirst(op, l, r) ==
    IF IsRaised(r) THEN r
    ELSE IF IsRaised(l) THEN l
    ELSE Operation(op, l, r)

\* lines 127-129: the left subtree is evaluated first and its exception
\* propagates before the right subtree is looked at; then the right one;
\* then the operation is applied
OperatorValue(op, l, r) ==
    IF IsRaised(l) THEN l
    ELSE IF IsRaised(r) THEN r
    ELSE Operation(op, l, r)

RECURSIVE evaluate_tree(_, _)
evaluate_tree(h, node) ==
    IF node = None THEN Int2Float(0)
    ELSE IF is_operand(h[node].value) THEN OperandValue(h[node].value)
    ELSE IF is_operator(h[node].value)
    THEN OperatorValue(h[node].value,
                       evaluate_tree(h, h[node].left),
                       evaluate_tree(h, h[node].right))
    ELSE Raised("CorruptTree")

(***************************************************************************)
(* Evaluation driver: build a tree from a postfix expression, evaluate it. *)
(***************************************************************************)
MaxEvalOps == 2

EvalOperands == {<<"0">>, <<"2">>, <<"x">>, <<"i", "n", "f">>}

\* the postfix expressions with exactly k operators, every operand and
\* every operator left open
RECURSIVE PostfixShapes(_)
PostfixShapes(k) ==
    IF k = 0 THEN {<<"operand">>}
    ELSE UNION {{l \o r \o <<"operator">> :
                    l \in PostfixShapes(j), r \in PostfixShapes(k - 1 - j)}
                : j \in 0..(k - 1)}

InitEval ==
    /\ entry = "evaluate"
    /\ \/ \E k \in 0..MaxEvalOps : \E shape \in PostfixShapes(k) :
             \E operands \in [1..(k + 1) -> EvalOperands] :
                \E ops \in [1..k -> Operators] :
                   expression = Instance(shape, operands, ops)
       \/ expression \in SeqsUpTo(RawTokens, MaxRawLen)
    /\ pc = "build"
    /\ fn = "postfix"
    /\ scan = expression
    /\ i = 1
    /\ stack = <<>>
    /\ heap = <<>>
    /\ tree = None
    /\ err = "none"
    /\ pass = 1
    /\ tree1 = None
    /\ postfix = <<>>
    /\ etype = "none"
    /\ result = "none"
    /\ out = <<>>

Evaluate ==
    /\ entry = "evaluate"
    /\ pc = "built"
    /\ LET v == evaluate_tree(heap, tree)
       IN  IF IsRaised(v)
           THEN Raise(v.e) /\ result' = result
           ELSE pc' = "evaluated" /\ result' = v /\ err' = err
    /\ UNCHANGED <<expression, entry, fn, scan, i, stack, heap, tree, pass,
                   tree1, postfix, etype, out>>

NextEval ==
    \/ build_tree_from_postfix
    \/ Evaluate

SpecEval == InitEval /\ [][NextEval]_vars

(***************************************************************************)
(* detect_expression_type and main                                         *)
(***************************************************************************)
\* lines 85-90; expression[0] of an empty list raises IndexError
detect_expression_type(expr) ==
    IF expr = <<>> THEN "IndexError"
    ELSE IF is_operator(expr[1]) THEN "prefix"
    ELSE IF is_operator(expr[Len(expr)]) THEN "postfix"
    ELSE "infix"

\* to_infix: the characters of the fully parenthesised string
RECURSIVE to_infix(_, _)
to_infix(h, node) ==
    IF node = None THEN <<>>
    ELSE IF is_operator(h[node].value)
    THEN <<"(">> \o to_infix(h, h[node].left) \o <<" ">> \o h[node].value
            \o <<" ">> \o to_infix(h, h[node].right) \o <<")">>
    ELSE h[node].value

\* ' '.join(tokens)
RECURSIVE JoinSpaces(_)
JoinSpaces(tokens) ==
    IF tokens = <<>> THEN <<>>
    ELSE IF Len(tokens) = 1 THEN tokens[1]
    ELSE tokens[1] \o <<" ">> \o JoinSpaces(Tail(tokens))

\* str.capitalize() of the three notation names
Capitalized(name) ==
    IF name = "infix" THEN "Infix"
    ELSE IF name = "prefix" THEN "Prefix" ELSE "Postfix"

Header(what) == [kind |-> "header", what |-> what]

Output(what, text) == [kind |-> "result", what |-> what, text |-> text]

\* the exceptions the code raises as ValueError
ValueErrors ==
    {"InvalidToken", "InsufficientOperands", "MalformedExpression",
     "NonNumericOperand", "CorruptTree"}

\* lines 198-202: the line the handler prints for exception e
ErrorLine(e) ==
    [kind |-> "error",
     what |-> IF e \in ValueErrors THEN "Error" ELSE "Unexpected Error",
     text |-> e]

DetectedLinesNone(type) == <<>>

\* line 166
DetectedLines(type) == <<Output("type", Capitalized(type))>>

\* lines 159-178: the banner, detection, and the start of the build
MainDetect ==
    /\ entry = "main"
    /\ pc = "start"
    /\ LET det == detect_expression_type(expression)
           before == out \o <<Header("banner"), Header("detecting")>>
       IN  IF det = "IndexError"
           THEN /\ Raise("IndexError")
                /\ out' = before
                /\ UNCHANGED <<fn, scan, i, stack, etype>>
           ELSE /\ out' = before \o DetectedLines(det) \o <<Header("building")>>
                /\ etype' = det
                /\ err' = err
                /\ IF det = "infix"
                   THEN pc' = "convert" /\ UNCHANGED <<fn, scan, i, stack>>
                   ELSE StartBuild(det, expression)
    /\ UNCHANGED <<expression, entry, heap, tree, pass, tree1, postfix, result>>

\* lines 181-192: the three conversions are printed, then the tree is
\* evaluated and the value printed
MainConvertEvaluate ==
    /\ entry = "main"
    /\ pc = "built"
    /\ postfix' = to_postfix(heap, tree)
    /\ LET v == evaluate_tree(heap, tree)
           shown == out \o <<Header("conversions"),
                             Output("infix", to_infix(heap, tree)),
                             Output("postfix", JoinSpaces(to_postfix(heap, tree))),
                             Output("prefix", JoinSpaces(to_prefix(heap, tree))),
                             Header("evaluating")>>
       IN  IF IsRaised(v)
           THEN /\ Raise(v.e)
                /\ out' = shown
                /\ result' = result
           ELSE /\ pc' = "visualize"
                /\ out' = shown \o <<Output("value", "%.2f"), Header("visualizing")>>
                /\ result' = v
                /\ err' = err
    /\ UNCHANGED <<expression, entry, fn, scan, i, stack, heap, tree, pass,
                   tree1, etype>>

\* lines 195-196: the renderer is external; it draws the tree and the
\* confirmation is printed, or it raises (no Graphviz executable, ...)
MainVisualize ==
    /\ entry = "main"
    /\ pc = "visualize"
    /\ \E drawn \in BOOLEAN :
          IF drawn
          THEN /\ out' = Append(out, Output("visualization", "expression_tree.png"))
               /\ pc' = "done"
               /\ err' = err
          ELSE /\ Raise("RenderError")
               /\ out' = out
    /\ UNCHANGED <<expression, entry, fn, scan, i, stack, heap, tree, pass,
                   tree1, postfix, etype, result>>

\* lines 198-202: whatever was raised inside the try block is printed
MainExcept ==
    /\ entry = "main"
    /\ pc = "raised"
    /\ out' = Append(out, ErrorLine(err))
    /\ pc' = "done"
    /\ UNCHANGED <<expression, entry, fn, scan, i, stack, heap, tree, err,
                   pass, tree1, postfix, etype, result>>

MaxMainLen == 4

\* input().split() yields tokens without white space, none of them empty
MainTokens ==
    {<<"3">>, <<"0">>, <<"x">>, <<"+">>, <<"/">>, LPAREN, RPAREN}

Init ==
    /\ entry = "main"
    /\ expression \in SeqsUpTo(MainTokens, MaxMainLen)
    /\ pc = "start"
    /\ fn = "postfix"
    /\ scan = <<>>
    /\ i = 1
    /\ stack = <<>>
    /\ heap = <<>>
    /\ tree = None
    /\ err = "none"
    /\ pass = 1
    /\ tree1 = None
    /\ postfix = <<>>
    /\ etype = "none"
    /\ result = "none"
    /\ out = <<>>

Next ==
    \/ MainDetect
    \/ ConvertInfix
    \/ build_tree_from_postfix
    \/ build_tree_from_prefix
    \/ MainConvertEvaluate
    \/ MainVisualize
    \/ MainExcept

Spec == Init /\ [][Next]_vars

(***************************************************************************)
(* Properties of the builders and the converters (SpecBuild)               *)
(***************************************************************************)

\* C1: whenever build_tree_from_postfix returns a tree T for p,
\* to_postfix(T) is p token for token; building again from to_postfix(T)
\* never raises and returns a tree with the same value and the same
\* left/right shape at every node.
C1_PostfixRoundTrip ==
    entry = "postfix" =>
        /\ (pass = 1 /\ pc = "built") => to_postfix(heap, tree) = expression
        /\ pass = 2 => /\ pc # "raised"
                       /\ to_postfix(heap, tree1) = expression
                       /\ pc = "built" => Shape(heap, tree) = Shape(heap, tree1)

\* a five-token postfix expression was built, converted and built again
C1_Witness ==
    /\ entry = "postfix"
    /\ pass = 2
    /\ pc = "built"
    /\ Len(expression) = 5
    /\ tree # tree1

\* C2: whenever build_tree_from_prefix returns a tree T for p, to_prefix(T)
\* is p token for token; building again from to_prefix(T) never raises and
\* returns a tree structurally identical to T.
C2_PrefixRoundTrip ==
    entry = "prefix" =>
        /\ (pass = 1 /\ pc = "built") => to_prefix(heap, tree) = expression
        /\ pass = 2 => /\ pc # "raised"
                       /\ to_prefix(heap, tree1) = expression
                       /\ pc = "built" => Shape(heap, tree) = Shape(heap, tree1)

\* a five-token prefix expression was built, converted and built again
C2_Witness ==
    /\ entry = "prefix"
    /\ pass = 2
    /\ pc = "built"
    /\ Len(expression) = 5
    /\ tree # tree1

\* operands minus operators among the first k tokens: the number of subtrees
\* a scan that has not failed holds after k tokens
RECURSIVE Pending(_, _)
Pending(tokens, k) ==
    IF k = 0 THEN 0
    ELSE Pending(tokens, k - 1) + (IF is_operator(tokens[k]) THEN -1 ELSE 1)

ScannedWell(tokens) ==
    /\ \A k \in 1..Len(tokens) :
          is_operator(tokens[k]) => Pending(tokens, k - 1) >= 2
    /\ Pending(tokens, Len(tokens)) = 1

\* C5: a builder returns a tree only if every operator token of the scan
\* (left to right for postfix, reversed for prefix) was met with at least
\* two subtrees on the stack and exactly one subtree is left at the end; an
\* operator met with fewer than two subtrees raises InsufficientOperands,
\* and a final stack of any other size than one raises MalformedExpression.
C5_BuilderFailures ==
    /\ [](pc = "built" =>
            /\ ScannedWell(scan)
            /\ Len(stack) = 1
            /\ tree = stack[1])
    /\ [][(/\ pc = "build"
           /\ i <= Len(scan)
           /\ is_operator(scan[i])
           /\ Len(stack) < 2) => (pc' = "raised" /\ err' = "InsufficientOperands")]_vars
    /\ [][(/\ pc = "build"
           /\ i > Len(scan)
           /\ Len(stack) # 1) => (pc' = "raised" /\ err' = "MalformedExpression")]_vars

\* postfix ["3", "+"] was rejected for lack of operands
C5_Witness ==
    /\ entry = "postfix"
    /\ expression = << <<"3">>, <<"+">> >>
    /\ pc = "raised"
    /\ err = "InsufficientOperands"

\* the empty sequence was rejected by the final count
C5_WitnessEmpty ==
    /\ expression = <<>>
    /\ pc = "raised"
    /\ err = "MalformedExpression"

WellFormedNode(h, n) ==
    \/ /\ is_operand(h[n].value)
       /\ h[n].left = None
       /\ h[n].right = None
    \/ /\ is_operator(h[n].value)
       /\ h[n].left \in 1..(n - 1)
       /\ h[n].right \in 1..(n - 1)

\* the (parent, side) slots of h that hold a child
ChildSlots(h) ==
    {s \in (DOMAIN h) \X {"left", "right"} :
        (IF s[2] = "left" THEN h[s[1]].left ELSE h[s[1]].right) # None}

ChildAt(h, s) == IF s[2] = "left" THEN h[s[1]].left ELSE h[s[1]].right

\* C9: at every step of a scan and in every returned tree, each node is an
\* operand with no children or an operator with both children; no node is
\* the child of two parents (or twice of one), and the subtrees on the
\* stack are distinct roots.
C9_NodeInvariant ==
    /\ \A n \in DOMAIN heap : WellFormedNode(heap, n)
    /\ \A s, t \in ChildSlots(heap) :
          ChildAt(heap, s) = ChildAt(heap, t) => s = t
    /\ \A k \in DOMAIN stack :
          /\ stack[k] \in DOMAIN heap
          /\ \A s \in ChildSlots(heap) : ChildAt(heap, s) # stack[k]
          /\ \A m \in DOMAIN stack : stack[m] = stack[k] => m = k
    /\ pc = "built" => tree \in DOMAIN heap

\* a tree with two operator nodes was returned
C9_Witness ==
    /\ pc = "built"
    /\ pass = 1
    /\ Len(heap) = 5
    /\ is_operator(heap[tree].value)
    /\ \E n \in DOMAIN heap : n # tree /\ is_operator(heap[n].value)

(***************************************************************************)
(* Properties of the infix converter (SpecInfix)                           *)
(***************************************************************************)

\* Reference parser: precedence climbing with (+,-) = 1, (*,/) = 2, ^ = 3,
\* ^ right-associative and the others left-associative.  A parse is
\* [ok, tree, next]; trees have the form Shape gives.
RefPrec(t) ==
    IF t = <<"^">> THEN 3 ELSE IF t = <<"*">> \/ t = <<"/">> THEN 2 ELSE 1

RefRightAssoc(t) == t = <<"^">>

RefFail == [ok |-> FALSE, tree |-> <<>>, next |-> 0]

RECURSIVE RefExpr(_, _, _)
RECURSIVE RefClimb(_, _, _, _)
RECURSIVE RefPrimary(_, _)

RefPrimary(e, k) ==
    IF k > Len(e) THEN RefFail
    ELSE IF IsAlnum(e[k])
    THEN [ok |-> TRUE, tree |-> <<e[k], <<>>, <<>>>>, next |-> k + 1]
    ELSE IF e[k] = LPAREN
    THEN LET r == RefExpr(e, k + 1, 1)
         IN  IF r.ok /\ r.next <= Len(e) /\ e[r.next] = RPAREN
             THEN [r EXCEPT !.next = r.next + 1]
             ELSE RefFail
    ELSE RefFail

RefClimb(e, lhs, k, minPrec) ==
    IF k <= Len(e) /\ e[k] \in Operators /\ RefPrec(e[k]) >= minPrec
    THEN LET rhs == RefExpr(e, k + 1,
                        IF RefRightAssoc(e[k]) THEN RefPrec(e[k])
                        ELSE RefPrec(e[k]) + 1)
         IN  IF rhs.ok
             THEN RefClimb(e, <<e[k], lhs, rhs.tree>>, rhs.next, minPrec)
             ELSE RefFail
    ELSE [ok |-> TRUE, tree |-> lhs, next |-> k]

RefExpr(e, k, minPrec) ==
    LET p == RefPrimary(e, k)
    IN  IF p.ok THEN RefClimb(e, p.tree, p.next, minPrec) ELSE RefFail

RefParse(e) == RefExpr(e, 1, 1)

\* operands and binary operators alternate, parenthesised parts included
WellFormedInfix(e) == RefParse(e).ok /\ RefParse(e).next = Len(e) + 1

ExampleInfix ==
    << <<"7">>, <<"*">>, <<"8">>, <<"-">>, <<"2">>, <<"/">>, <<"4">> >>

ExamplePostfix ==
    << <<"7">>, <<"8">>, <<"*">>, <<"2">>, <<"4">>, <<"/">>, <<"-">> >>

\* C3: for a well-formed infix expression infix_to_postfix does not fail,
\* its output holds no parenthesis, and build_tree_from_postfix of the
\* output returns the tree of the reference parser; 7 * 8 - 2 / 4 gives
\* 7 8 * 2 4 / -.
C3_InfixToPostfix ==
    (entry = "infix" /\ WellFormedInfix(expression)) =>
        /\ pc # "raised"
        /\ pc # "convert" =>
              /\ \A k \in 1..Len(postfix) : postfix[k] \notin {LPAREN, RPAREN}
              /\ scan = postfix
        /\ pc = "built" => Shape(heap, tree) = RefParse(expression).tree
        /\ (expression = ExampleInfix /\ pc # "convert") =>
              postfix = ExamplePostfix

\* the tree of 7 * 8 - 2 / 4 was built from the converter's output
C3_Witness ==
    /\ entry = "infix"
    /\ expression = ExampleInfix
    /\ pc = "built"

\* nesting depth after the first k tokens, -1 once a ")" had no "(" open
RECURSIVE ParenDepth(_, _)
ParenDepth(e, k) ==
    IF k = 0 THEN 0
    ELSE LET d == ParenDepth(e, k - 1)
         IN  IF d < 0 THEN -1
             ELSE IF e[k] = LPAREN THEN d + 1
             ELSE IF e[k] = RPAREN THEN d - 1
             ELSE d

Balanced(e) == ParenDepth(e, Len(e)) = 0

\* C4: infix_to_postfix fails with UnbalancedParentheses on every token
\* sequence whose parentheses are unbalanced (a ")" with no "(" open, or a
\* "(" never closed) and returns no output for it.
C4_UnbalancedRejected ==
    (/\ entry = "infix"
     /\ pc # "convert"
     /\ ~Balanced(expression)
     /\ \A k \in 1..Len(expression) :
           is_operand(expression[k]) \/ is_operator(expression[k])
              \/ expression[k] \in {LPAREN, RPAREN})
        => (pc = "raised" /\ err = "UnbalancedParentheses")

(***************************************************************************)
(* Properties of evaluate_tree (SpecEval)                                  *)
(***************************************************************************)

\* Reference run of a postfix sequence on a value stack, token by token:
\* the events of evaluate_tree on the built tree happen in this order (a
\* leaf is parsed when it is visited, an operation is applied after both
\* its subtrees).  fail is the index of the first token whose event raises,
\* 0 if none among the first k.
RECURSIVE Run(_, _)
Run(p, k) ==
    IF k = 0 THEN [fail |-> 0, e |-> "none", stack |-> <<>>]
    ELSE LET prev == Run(p, k - 1)
         IN  IF prev.fail # 0 THEN prev
             ELSE IF is_operator(p[k])
             THEN LET v == Operation(p[k], Top(Popped(prev.stack)), Top(prev.stack))
                  IN  IF IsRaised(v)
                      THEN [fail |-> k, e |-> v.e, stack |-> prev.stack]
                      ELSE [prev EXCEPT
                              !.stack = Append(Popped(Popped(prev.stack)), v)]
             ELSE LET v == float(p[k])
                  IN  IF IsRaised(v)
                      THEN [fail |-> k, e |-> "operand", stack |-> prev.stack]
                      ELSE [prev EXCEPT !.stack = Append(prev.stack, v)]

\* evaluate_tree has run on the tree built from the expression
Evaluated ==
    /\ entry = "evaluate"
    /\ tree # None
    /\ pc \in {"evaluated", "raised"}

\* the leaves float() rejects
RejectedLeaves(p) ==
    {k \in 1..Len(p) : is_operand(p[k]) /\ IsRaised(float(p[k]))}

FirstRejected(p) ==
    CHOOSE k \in RejectedLeaves(p) : \A m \in RejectedLeaves(p) : k <= m

\* C8 as stated: a tree with a leaf that is no numeric literal (a variable
\* name such as x) fails with NonNumericOperand, wherever the leaf is and
\* whatever the rest of the tree; no number is returned and no other error
\* raised.
C8_VariableAlwaysRejected ==
    (Evaluated /\ RejectedLeaves(expression) # {})
        => (pc = "raised" /\ err = "NonNumericOperand" /\ result = "none")

\* C8 amended: a tree with a leaf float() rejects never evaluates to a
\* number; it fails with NonNumericOperand unless an operation applied
\* before the first such leaf is visited (left subtree first) raises
\* ZeroDivisionError or OverflowError, which is then the error raised.
C8_RejectedLeafFails ==
    (Evaluated /\ RejectedLeaves(expression) # {}) =>
        /\ pc = "raised"
        /\ result = "none"
        /\ LET before == Run(expression, FirstRejected(expression) - 1)
           IN  IF before.fail = 0 THEN err = "NonNumericOperand"
               ELSE err = before.e /\ err \in {"ZeroDivisionError", "OverflowError"}

\* a variable in the right subtree of the root was met after the left
\* subtree had evaluated to a number
C8_Witness ==
    /\ Evaluated
    /\ Len(expression) = 5
    /\ expression[4] = <<"x">>
    /\ RejectedLeaves(expression) = {4}
    /\ err = "NonNumericOperand"

\* the scan reaches a "/" whose divisor evaluated to zero
ReachesDivisionByZero(p) ==
    \E k \in 1..Len(p) :
        /\ p[k] = <<"/">>
        /\ Run(p, k - 1).fail = 0
        /\ IsZero(Top(Run(p, k - 1).stack))

\* C10 as stated: a "/" node whose right subtree evaluates to zero does not
\* raise; the node gets the floating-point quotient and the evaluation of
\* the tree ends with a number.
C10_DivisionByZeroPropagates ==
    (Evaluated /\ ReachesDivisionByZero(expression))
        => (pc = "evaluated" /\ IsNumber(result))

\* C10 amended: a "/" node whose right subtree evaluates to zero raises
\* ZeroDivisionError; the evaluation of the tree ends there with that
\* error and no number.
C10_DivisionByZeroRaises ==
    (Evaluated /\ ReachesDivisionByZero(expression))
        => (pc = "raised" /\ err = "ZeroDivisionError" /\ result = "none")

\* 2 / (2 - 2) was evaluated
C10_Witness ==
    /\ Evaluated
    /\ expression = << <<"2">>, <<"2">>, <<"2">>, <<"-">>, <<"/">> >>
    /\ pc = "raised"

(***************************************************************************)
(* Properties of main (Spec)                                               *)
(***************************************************************************)

\* C6: on the empty token sequence detection fails with EmptyExpression,
\* the test being made before a token is indexed.
C6_EmptyExpressionRejected ==
    (entry = "main" /\ expression = <<>> /\ pc # "start")
        => err = "EmptyExpression"

\* C7 as stated: no result line is ever followed by an error line.
C7_NoOutputBeforeError ==
    \A j, k \in DOMAIN out :
        (j < k /\ out[j].kind = "result") => out[k].kind # "error"

Stages == <<"type", "infix", "postfix", "prefix", "value", "visualization">>

\* the results printed so far, in order
Results == SelectSeq(out, LAMBDA line : line.kind = "result")

\* the number of results a run that fails with e has printed: none when
\* detection fails, the notation when conversion or building fails, the
\* three renderings too when evaluation fails, the value too when the
\* renderer fails
PrintedBefore(e) ==
    IF e = "IndexError" /\ expression = <<>> THEN 0
    ELSE IF e \in {"IndexError", "InvalidToken", "InsufficientOperands",
                   "MalformedExpression"} THEN 1
    ELSE IF e = "RenderError" THEN 5
    ELSE 4

\* C7 amended: the results are printed stage by stage, so when a stage
\* fails the results of the stages before it have been printed and neither
\* the failing stage nor a later one prints a result; the error is printed
\* once, as the last line of the run.
C7_ErrorEndsOutput ==
    entry = "main" =>
        /\ \A k \in DOMAIN out :
              out[k].kind = "error" => (k = Len(out) /\ pc = "done")
        /\ Len(Results) <= Len(Stages)
        /\ \A k \in DOMAIN Results : Results[k].what = Stages[k]
        /\ (pc = "done" /\ err # "none") =>
              /\ out[Len(out)] = ErrorLine(err)
              /\ Len(Results) = PrintedBefore(err)
        /\ (pc = "done" /\ err = "none") => Len(Results) = Len(Stages)

\* the evaluation of 3 / 0 failed after the notation and the three
\* renderings had been printed, and the error was reported
C7_Witness ==
    /\ entry = "main"
    /\ expression = << <<"3">>, <<"0">>, <<"/">> >>
    /\ pc = "done"
    /\ err = "ZeroDivisionError"
    /\ Len(Results) = 4

====
